---------------------------- MODULE Spec2Model ----------------------------
(***************************************************************************)
(* Model of the secure-exchange core of matrix-rust-sdk:                   *)
(*   - matrix_sdk_crypto/src/file_encryption/key_export.rs                 *)
(*       (encrypt_key_export / decrypt_key_export and their helpers)       *)
(*   - matrix_qrcode/src/utils.rs (to_bytes)                               *)
(*                                                                         *)
(* Bytes are the integers 0..255.  A Rust String is a sequence of          *)
(* characters, each a one-character TLA+ string; the two armor marker      *)
(* literals are kept as single atoms of such a sequence.                   *)
(*                                                                         *)
(* Library primitives are modelled as follows.                             *)
(*   PBKDF2-HMAC-SHA512: an injective function of what HMAC makes of the   *)
(*     password (the password zero-padded to the hash's block size), the   *)
(*     salt and the number of iterations actually run.                     *)
(*   HMAC-SHA256: a random oracle sampled lazily (variable hmacTable):     *)
(*     one tag per (key, data), no two queries share a tag, and a tag      *)
(*     that was never issued for a query does not verify for it.           *)
(*   AES-256-CTR: XOR with a keystream that is a function of key, iv and   *)
(*     position.                                                           *)
(***************************************************************************)
EXTENDS Integers, Sequences, FiniteSets, TLC

VARIABLES
    enc,        \* the encryption that produced the export in hand (ghost)
    carrier,    \* the export as it travels: payload bytes and armor shape
    dec,        \* outcome of the last decrypt call
    hmacTable,  \* HMAC-SHA256 oracle: <<key, data>> -> tag number
    qr,         \* last to_bytes call: its arguments and its result
    code,       \* to_qr_code calls: arguments and result
    scan,       \* decode_qr calls: the grids detected and the result
    rng,        \* the values Uuid::new_v4 has returned so far, in order
    threads,    \* per thread: position in building a request, and locals
    outgoing    \* the OutgoingRequest values built, and their clones

vars == <<enc, carrier, dec, hmacTable, qr, code, scan, rng, threads, outgoing>>

(* What the key export codec and to_bytes never touch. *)
others == <<code, scan, rng, threads, outgoing>>

-----------------------------------------------------------------------------
(* Program constants, key_export.rs *)
SALT_SIZE == 16
IV_SIZE == 16
MAC_SIZE == 32
KEY_SIZE == 32
VERSION == 1
HEADER == "-----BEGIN MEGOLM SESSION DATA-----"
FOOTER == "-----END MEGOLM SESSION DATA-----"

(* Block size in bytes of SHA-512, the hash under PBKDF2's HMAC. *)
SHA512_BLOCK == 128

(* Bounds of the model *)
MaxKeys == 2        \* longest key list exported
NumTags == 2        \* HMAC tags the oracle can issue

Byte == 0..255

-----------------------------------------------------------------------------
(* Sequence helpers *)

Slice(s, from, to) == [i \in 1..(to - from) |-> s[from + i]]
    \* Rust s[from..to], 0-based, end exclusive; requires from <= to <= Len(s)

Repeat(x, n) == [i \in 1..n |-> x]

RECURSIVE Concat(_)
Concat(ss) == IF ss = <<>> THEN <<>> ELSE Head(ss) \o Concat(Tail(ss))

Pow2(n) == CASE n = 0 -> 1 [] n = 1 -> 2 [] n = 2 -> 4 [] n = 3 -> 8
             [] n = 4 -> 16 [] n = 5 -> 32 [] n = 6 -> 64 [] n = 7 -> 128
             [] n = 8 -> 256

BitOf(b, k) == (b \div Pow2(k)) % 2

XorByte(a, b) ==
    LET x(k) == IF BitOf(a, k) = BitOf(b, k) THEN 0 ELSE Pow2(k)
    IN x(0) + x(1) + x(2) + x(3) + x(4) + x(5) + x(6) + x(7)

-----------------------------------------------------------------------------
(* base64, standard alphabet, no padding: crate::utilities::{encode, decode}
   and matrix_qrcode's base64_decode (STANDARD_NO_PAD) *)

B64Alphabet ==
    << "A","B","C","D","E","F","G","H","I","J","K","L","M","N","O","P",
       "Q","R","S","T","U","V","W","X","Y","Z","a","b","c","d","e","f",
       "g","h","i","j","k","l","m","n","o","p","q","r","s","t","u","v",
       "w","x","y","z","0","1","2","3","4","5","6","7","8","9","+","/" >>

B64Chars == {B64Alphabet[i] : i \in 1..64}

B64Index == [c \in B64Chars |-> (CHOOSE i \in 1..64 : B64Alphabet[i] = c) - 1]

B64Value(c) == B64Index[c]

encode(bytes) ==
    LET n == Len(bytes)
        full == n \div 3
        rem == n % 3
        b(i) == bytes[i]
        Quad(g) ==
            LET x == b(3*g + 1)  y == b(3*g + 2)  z == b(3*g + 3)
            IN << B64Alphabet[(x \div 4) + 1],
                  B64Alphabet[(x % 4) * 16 + (y \div 16) + 1],
                  B64Alphabet[(y % 16) * 4 + (z \div 64) + 1],
                  B64Alphabet[(z % 64) + 1] >>
        body == [i \in 1..(4 * full) |-> Quad((i - 1) \div 4)[((i - 1) % 4) + 1]]
        tail ==
            CASE rem = 0 -> <<>>
              [] rem = 1 ->
                    LET x == b(3*full + 1)
                    IN << B64Alphabet[(x \div 4) + 1],
                          B64Alphabet[(x % 4) * 16 + 1] >>
              [] rem = 2 ->
                    LET x == b(3*full + 1)  y == b(3*full + 2)
                    IN << B64Alphabet[(x \div 4) + 1],
                          B64Alphabet[(x % 4) * 16 + (y \div 16) + 1],
                          B64Alphabet[(y % 16) * 4 + 1] >>
    IN body \o tail

(* Result: [ok |-> TRUE, bytes |-> ...] or [ok |-> FALSE] (a DecodeError:
   a symbol outside the alphabet, a length of 1 mod 4, or non-zero trailing
   bits in the last symbol). *)
decode(text) ==
    LET n == Len(text)
        full == n \div 4
        rem == n % 4
        v(i) == B64Value(text[i])
        Triple(g) ==
            LET p == v(4*g + 1)  q == v(4*g + 2)  r == v(4*g + 3)  s == v(4*g + 4)
            IN << p * 4 + (q \div 16), (q % 16) * 16 + (r \div 4), (r % 4) * 64 + s >>
    IN IF \E i \in 1..n : text[i] \notin B64Chars THEN [ok |-> FALSE]
       ELSE IF rem = 1 THEN [ok |-> FALSE]
       ELSE IF rem = 2 /\ v(n) % 16 # 0 THEN [ok |-> FALSE]
       ELSE IF rem = 3 /\ v(n) % 4 # 0 THEN [ok |-> FALSE]
       ELSE
         LET body == [i \in 1..(3 * full) |-> Triple((i - 1) \div 3)[((i - 1) % 3) + 1]]
             tail ==
                CASE rem = 0 -> <<>>
                  [] rem = 2 -> << v(4*full + 1) * 4 + (v(4*full + 2) \div 16) >>
                  [] rem = 3 -> << v(4*full + 1) * 4 + (v(4*full + 2) \div 16),
                                   (v(4*full + 2) % 16) * 16 + (v(4*full + 3) \div 4) >>
         IN [ok |-> TRUE, bytes |-> body \o tail]


-----------------------------------------------------------------------------
(* Fixed-width integers *)

(* u128::from_be_bytes: the value as its 128 bits, bit 0 the least
   significant; byte 1 of the array holds bits 127..120. *)
from_be_bytes(b) == [k \in 0..127 |-> BitOf(b[IV_SIZE - (k \div 8)], k % 8)]

(* u128::to_be_bytes *)
to_be_bytes(u) ==
    [i \in 1..IV_SIZE |->
        LET o == (IV_SIZE - i) * 8
        IN u[o] + 2*u[o+1] + 4*u[o+2] + 8*u[o+3]
           + 16*u[o+4] + 32*u[o+5] + 64*u[o+6] + 128*u[o+7]]

(* Mutant of ClearIvBit: the mask written as !(1 << 127). *)
ClearIvTopBit(u) == [u EXCEPT ![127] = 0]

(* iv &= !(1 << 63), on a u128 *)
ClearIvBit(u) == [u EXCEPT ![63] = 0]

(* Mutant of u32_to_be_bytes: the bytes in little-endian order. *)
u32_to_le_bytes(n) ==
    << n % 256, (n \div 256) % 256, (n \div 65536) % 256, (n \div 16777216) % 256 >>

(* u32::to_be_bytes *)
u32_to_be_bytes(n) ==
    << (n \div 16777216) % 256, (n \div 65536) % 256, (n \div 256) % 256, n % 256 >>

(* ReadBytesExt::read_u32::<BigEndian> on four bytes *)
u32_from_be_bytes(b) == b[1] * 16777216 + b[2] * 65536 + b[3] * 256 + b[4]

-----------------------------------------------------------------------------
(* Cryptographic primitives *)

(* HMAC's key block: a key no longer than the hash's block is zero-padded
   to the block size (passphrases of the model are shorter than a block). *)
HmacKeyBlock(key) == key \o Repeat(0, SHA512_BLOCK - Len(key))

(* Mutant of pbkdf2: the salt is passed where the password belongs. *)
pbkdf2_salt_as_password(passphrase, salt, rounds) ==
    [password |-> HmacKeyBlock(salt),
     salt |-> salt,
     rounds |-> IF rounds = 0 THEN 1 ELSE rounds]

(* pbkdf2::<Hmac<Sha512>>(passphrase, salt, rounds, &mut derived_keys):
   the 64 derived bytes, as the term that determines them.  The first
   iteration always runs (the crate loops `for _ in 1..rounds`), so 0 rounds
   derive what 1 round derives. *)
pbkdf2(passphrase, salt, rounds) ==
    [password |-> HmacKeyBlock(passphrase),
     salt |-> salt,
     rounds |-> IF rounds = 0 THEN 1 ELSE rounds]

(* derived_keys.split_at(KEY_SIZE) *)
CipherKey(derived_keys) == [half |-> "0..KEY_SIZE", of |-> derived_keys]
HmacKey(derived_keys) == [half |-> "KEY_SIZE..", of |-> derived_keys]

(* The tag the oracle issues under number n. *)
Tag(n) == Repeat(n, MAC_SIZE)

TagNumbers == 1..NumTags

(* Hmac::<Sha256>::new_varkey(key), update(data), finalize() *)
HmacSha256(table, key, data) == Tag(table[<<key, data>>])

(* The oracle tables that answer query q and agree with `table`: a query
   asked before keeps its tag, a new one gets a tag not issued yet, and
   never the tag `guess` that a party who did not ask the oracle supplied. *)
Sample(table, q, guess) ==
    IF q \in DOMAIN table THEN {table}
    ELSE { table @@ (q :> t) :
             t \in { u \in TagNumbers :
                       /\ \A p \in DOMAIN table : table[p] # u
                       /\ Tag(u) # guess } }

(* A checksum of the numbers s[lo..hi], each weighted by its position. *)
RECURSIVE Checksum(_, _, _)
Checksum(s, lo, hi) ==
    IF lo > hi THEN 0
    ELSE IF lo = hi THEN (s[lo] + 1) * (lo * lo + 3 * lo + 7)
    ELSE LET mid == (lo + hi) \div 2
         IN Checksum(s, lo, mid) + Checksum(s, mid + 1, hi)

(* Aes256Ctr::new_var(key, iv) then apply_keystream(data): XOR with the
   keystream of (key, iv). *)
apply_keystream(key, iv, data) ==
    LET material == key.of.password \o key.of.salt \o <<key.of.rounds % 65521>> \o iv
        seed == Checksum(material, 1, Len(material)) % 65521
    IN [i \in 1..Len(data) |-> XorByte(data[i], ((seed + 1) * (i + 12) + seed \div 7) % 256)]

-----------------------------------------------------------------------------
(* UTF-8 and JSON *)

IsCont(b) == b \in 128..191

(* String::from_utf8 succeeds *)
RECURSIVE ValidUtf8From(_, _)
ValidUtf8From(b, i) ==
    LET n == Len(b)
        c(k) == i + k <= n /\ IsCont(b[i + k])
    IN IF i > n THEN TRUE
       ELSE CASE b[i] < 128 -> ValidUtf8From(b, i + 1)
              [] b[i] \in 194..223 -> c(1) /\ ValidUtf8From(b, i + 2)
              [] b[i] = 224 -> i + 1 <= n /\ b[i+1] \in 160..191 /\ c(2)
                               /\ ValidUtf8From(b, i + 3)
              [] b[i] \in (225..236) \cup {238, 239} ->
                               c(1) /\ c(2) /\ ValidUtf8From(b, i + 3)
              [] b[i] = 237 -> i + 1 <= n /\ b[i+1] \in 128..159 /\ c(2)
                               /\ ValidUtf8From(b, i + 3)
              [] b[i] = 240 -> i + 1 <= n /\ b[i+1] \in 144..191 /\ c(2) /\ c(3)
                               /\ ValidUtf8From(b, i + 4)
              [] b[i] \in 241..243 -> c(1) /\ c(2) /\ c(3) /\ ValidUtf8From(b, i + 4)
              [] b[i] = 244 -> i + 1 <= n /\ b[i+1] \in 128..143 /\ c(2) /\ c(3)
                               /\ ValidUtf8From(b, i + 4)
              [] OTHER -> FALSE

from_utf8_ok(b) == ValidUtf8From(b, 1)

(* An ExportedRoomKey is a key number 0..9; its JSON form is that digit. *)
LBRACKET == 91
RBRACKET == 93
COMMA == 44
DIGIT0 == 48

(* serde_json::to_string(keys) as bytes *)
to_string(keys) ==
    <<LBRACKET>>
    \o [i \in 1..(IF keys = <<>> THEN 0 ELSE 2 * Len(keys) - 1) |->
            IF i % 2 = 1 THEN DIGIT0 + keys[(i + 1) \div 2] ELSE COMMA]
    \o <<RBRACKET>>

(* serde_json::from_str::<Vec<ExportedRoomKey>>(s): [ok, keys] *)
from_str(s) ==
    LET n == Len(s)
        inner == Slice(s, 1, n - 1)
        m == Len(inner)
        shaped ==
            /\ n >= 2 /\ s[1] = LBRACKET /\ s[n] = RBRACKET
            /\ (m = 0 \/ m % 2 = 1)
            /\ \A i \in 1..m :
                  IF i % 2 = 1 THEN inner[i] \in DIGIT0..(DIGIT0 + 9)
                  ELSE inner[i] = COMMA
    IN IF shaped
       THEN [ok |-> TRUE,
             keys |-> [j \in 1..((m + 1) \div 2) |-> inner[2*j - 1] - DIGIT0]]
       ELSE [ok |-> FALSE]

-----------------------------------------------------------------------------
(* Text *)

NL == "\n"
CR == "\r"
WhiteSpace == {" ", "\t", NL, CR}

RECURSIVE trim_start(_)
trim_start(x) ==
    IF x # <<>> /\ Head(x) \in WhiteSpace THEN trim_start(Tail(x)) ELSE x

RECURSIVE trim_end(_)
trim_end(x) ==
    IF x # <<>> /\ x[Len(x)] \in WhiteSpace
    THEN trim_end(SubSeq(x, 1, Len(x) - 1)) ELSE x

(* The marker literals are atoms of a text. *)
starts_with(x, marker) == x # <<>> /\ Head(x) = marker
ends_with(x, marker) == x # <<>> /\ x[Len(x)] = marker

(* str::lines: split at "\n", a "\r" just before it dropped, no empty last
   line after a final "\n". *)
lines(x) ==
    LET n == Len(x)
        breaks == {i \in 1..n : x[i] = NL}
        count == Cardinality(breaks) + (IF n > 0 /\ x[n] # NL THEN 1 ELSE 0)
        Break(k) == IF k = 0 THEN 0
                    ELSE IF k > Cardinality(breaks) THEN n + 1
                    ELSE CHOOSE p \in breaks : Cardinality({q \in breaks : q < p}) = k - 1
        Line(k) ==
            LET from == Break(k - 1) + 1
                to == Break(k) - 1
                end == IF Break(k) <= n /\ to >= from /\ x[to] = CR THEN to - 1 ELSE to
            IN SubSeq(x, from, end)
    IN [k \in 1..count |-> Line(k)]

(* [a, b, c].join("\n") *)
join3(a, b, c) == a \o <<NL>> \o b \o <<NL>> \o c

(* x.lines().filter(|l| !(l.starts_with(HEADER) || l.starts_with(FOOTER))).collect() *)
StripMarkerLines(x) ==
    Concat(SelectSeq(lines(x),
                     LAMBDA l : ~(starts_with(l, HEADER) \/ starts_with(l, FOOTER))))

-----------------------------------------------------------------------------
(* encrypt_helper *)

HEADER_LEN == 1 + SALT_SIZE + IV_SIZE + 4

(* lines 158-159: the random iv as the u128 the cipher and the payload use *)
MaskIv(iv) == to_be_bytes(ClearIvBit(from_be_bytes(iv)))

(* The iv bytes the cipher is seeded with (line 164). *)
CipherIv(iv) == MaskIv(iv)

(* The iv bytes written into the payload (line 172). *)
PayloadIv(iv) == MaskIv(iv)

(* lines 161-174: the payload before the MAC is appended *)
EncryptBody(plaintext, passphrase, rounds, salt, iv) ==
    LET derived_keys == pbkdf2(passphrase, salt, rounds)
        ciphertext == apply_keystream(CipherKey(derived_keys), CipherIv(iv), plaintext)
    IN <<VERSION>> \o salt \o PayloadIv(iv) \o u32_to_be_bytes(rounds) \o ciphertext

(* Mutant of EncryptMacInput: the MAC leaves the version byte out. *)
EncryptMacInputNoVersion(payload) == Tail(payload)

(* line 177: what the MAC is computed over *)
EncryptMacInput(payload) == payload

(* The oracle query encrypt_helper makes. *)
EncryptQuery(plaintext, passphrase, rounds, salt, iv) ==
    << HmacKey(pbkdf2(passphrase, salt, rounds)),
       EncryptMacInput(EncryptBody(plaintext, passphrase, rounds, salt, iv)) >>

(* lines 168-180: the whole payload, MAC included.  salt and iv are the
   bytes getrandom returned. *)
EncryptPayload(plaintext, passphrase, rounds, salt, iv, table) ==
    LET payload == EncryptBody(plaintext, passphrase, rounds, salt, iv)
        hmac_key == HmacKey(pbkdf2(passphrase, salt, rounds))
    IN payload \o HmacSha256(table, hmac_key, EncryptMacInput(payload))

encrypt_helper(plaintext, passphrase, rounds, salt, iv, table) ==
    encode(EncryptPayload(plaintext, passphrase, rounds, salt, iv, table))

encrypt_key_export(keys, passphrase, rounds, salt, iv, table) ==
    join3(<<HEADER>>,
          encrypt_helper(to_string(keys), passphrase, rounds, salt, iv, table),
          <<FOOTER>>)

-----------------------------------------------------------------------------
(* decrypt_helper *)

(* lines 195-205: the cursor reads.  [ok |-> FALSE] is an io::Error
   (UnexpectedEof from a read, InvalidInput from the seek). *)
ReadFields(decoded) ==
    LET n == Len(decoded)
    IN IF n < 1 THEN [ok |-> FALSE]                          \* read_u8
       ELSE IF n < 1 + SALT_SIZE THEN [ok |-> FALSE]         \* read_exact(salt)
       ELSE IF n < 1 + SALT_SIZE + IV_SIZE THEN [ok |-> FALSE] \* read_exact(iv)
       ELSE IF n < HEADER_LEN THEN [ok |-> FALSE]            \* read_u32
       ELSE IF n - 32 < 0 THEN [ok |-> FALSE]                \* seek(End(-32))
       ELSE IF (n - 32) + MAC_SIZE > n THEN [ok |-> FALSE]   \* read_exact(mac)
       ELSE [ok |-> TRUE,
             version |-> decoded[1],
             salt |-> Slice(decoded, 1, 1 + SALT_SIZE),
             iv |-> Slice(decoded, 1 + SALT_SIZE, 1 + SALT_SIZE + IV_SIZE),
             rounds |-> u32_from_be_bytes(Slice(decoded, 1 + SALT_SIZE + IV_SIZE, HEADER_LEN)),
             ciphertext_start |-> HEADER_LEN,
             ciphertext_end |-> n - 32,
             mac |-> Slice(decoded, n - 32, n)]

(* line 217: what the MAC is verified over *)
DecryptMacInput(decoded, f) == Slice(decoded, 0, f.ciphertext_end)

Failure(err, steps) == [res |-> "Err", err |-> err, steps |-> steps]

(* Mutant of DecryptChecked: the keystream is applied, and the text
   validated, before the MAC is compared. *)
DecryptCipherFirst(decoded, f, passphrase, table, steps) ==
    IF f.version # VERSION THEN Failure("UnsupportedVersion", steps \o <<"version">>)
    ELSE
      LET derived_keys == pbkdf2(passphrase, f.salt, f.rounds)
          expected == HmacSha256(table, HmacKey(derived_keys), DecryptMacInput(decoded, f))
          s1 == steps \o <<"version", "pbkdf2", "aes", "utf8", "hmac">>
      IN IF f.ciphertext_start > f.ciphertext_end
         THEN [res |-> "Panic", err |-> "slice index", steps |-> steps \o <<"version", "pbkdf2">>]
         ELSE
           LET ciphertext == Slice(decoded, f.ciphertext_start, f.ciphertext_end)
               plain == apply_keystream(CipherKey(derived_keys), f.iv, ciphertext)
           IN IF ~from_utf8_ok(plain)
              THEN Failure("InvalidUtf8", steps \o <<"version", "pbkdf2", "aes", "utf8">>)
              ELSE IF expected # f.mac THEN Failure("InvalidMac", s1)
              ELSE [res |-> "Ok", out |-> plain, steps |-> s1]

(* Mutant of DecryptChecked: the MAC is computed and never compared. *)
DecryptUnverified(decoded, f, passphrase, table, steps) ==
    IF f.version # VERSION THEN Failure("UnsupportedVersion", steps \o <<"version">>)
    ELSE
      LET derived_keys == pbkdf2(passphrase, f.salt, f.rounds)
          s1 == steps \o <<"version", "pbkdf2", "hmac">>
      IN IF f.ciphertext_start > f.ciphertext_end
         THEN [res |-> "Panic", err |-> "slice index", steps |-> s1]
         ELSE
           LET ciphertext == Slice(decoded, f.ciphertext_start, f.ciphertext_end)
               plain == apply_keystream(CipherKey(derived_keys), f.iv, ciphertext)
               s2 == s1 \o <<"aes", "utf8">>
           IN IF ~from_utf8_ok(plain) THEN Failure("InvalidUtf8", s2)
              ELSE [res |-> "Ok", out |-> plain, steps |-> s2]

(* lines 209-224, after the reads succeeded.  steps lists the operations
   performed, in order. *)
(* Mutant of DecryptChecked: the version is compared after the MAC. *)
DecryptMacBeforeVersion(decoded, f, passphrase, table, steps) ==
    LET derived_keys == pbkdf2(passphrase, f.salt, f.rounds)
        expected == HmacSha256(table, HmacKey(derived_keys), DecryptMacInput(decoded, f))
        s1 == steps \o <<"pbkdf2", "hmac">>
    IN IF expected # f.mac THEN Failure("InvalidMac", s1)
       ELSE IF f.version # VERSION THEN Failure("UnsupportedVersion", s1 \o <<"version">>)
       ELSE IF f.ciphertext_start > f.ciphertext_end
            THEN [res |-> "Panic", err |-> "slice index", steps |-> s1 \o <<"version">>]
       ELSE
         LET ciphertext == Slice(decoded, f.ciphertext_start, f.ciphertext_end)
             plain == apply_keystream(CipherKey(derived_keys), f.iv, ciphertext)
             s2 == s1 \o <<"version", "aes", "utf8">>
         IN IF ~from_utf8_ok(plain) THEN Failure("InvalidUtf8", s2)
            ELSE [res |-> "Ok", out |-> plain, steps |-> s2]

DecryptChecked(decoded, f, passphrase, table, steps) ==
    IF f.version # VERSION THEN Failure("UnsupportedVersion", steps \o <<"version">>)
    ELSE
      LET derived_keys == pbkdf2(passphrase, f.salt, f.rounds)
          expected == HmacSha256(table, HmacKey(derived_keys), DecryptMacInput(decoded, f))
          s1 == steps \o <<"version", "pbkdf2", "hmac">>
      IN IF expected # f.mac THEN Failure("InvalidMac", s1)
         ELSE IF f.ciphertext_start > f.ciphertext_end
              THEN [res |-> "Panic", err |-> "slice index", steps |-> s1]
         ELSE
           LET ciphertext == Slice(decoded, f.ciphertext_start, f.ciphertext_end)
               plain == apply_keystream(CipherKey(derived_keys), f.iv, ciphertext)
               s2 == s1 \o <<"aes", "utf8">>
           IN IF ~from_utf8_ok(plain) THEN Failure("InvalidUtf8", s2)
              ELSE [res |-> "Ok", out |-> plain, steps |-> s2]

decrypt_helper(ciphertext, passphrase, table) ==
    LET d == decode(ciphertext)
    IN IF ~d.ok THEN Failure("Decode", <<"base64">>)
       ELSE LET f == ReadFields(d.bytes)
            IN IF ~f.ok THEN Failure("Io", <<"base64", "read">>)
               ELSE DecryptChecked(d.bytes, f, passphrase, table, <<"base64", "read">>)

(* The oracle queries decrypt_helper makes on this input (none when it
   returns before the MAC), each with the MAC bytes the input supplies. *)
DecryptQueries(ciphertext, passphrase) ==
    LET d == decode(ciphertext)
    IN IF ~d.ok THEN {}
       ELSE LET f == ReadFields(d.bytes)
            IN IF ~f.ok \/ f.version # VERSION THEN {}
               ELSE { [q |-> << HmacKey(pbkdf2(passphrase, f.salt, f.rounds)),
                                DecryptMacInput(d.bytes, f) >>,
                       mac |-> f.mac] }

decrypt_key_export(x, passphrase, table) ==
    IF ~(starts_with(trim_start(x), HEADER) /\ ends_with(trim_end(x), FOOTER))
    THEN Failure("InvalidHeaders", <<"markers">>)
    ELSE
      LET payload == StripMarkerLines(x)
          r == decrypt_helper(payload, passphrase, table)
          steps == <<"markers">> \o r.steps
      IN IF r.res # "Ok" THEN [r EXCEPT !.steps = steps]
         ELSE LET j == from_str(r.out)
              IN IF j.ok THEN [res |-> "Ok", out |-> j.keys, steps |-> steps \o <<"json">>]
                 ELSE Failure("Json", steps \o <<"json">>)

(* The queries decrypt_key_export makes on text x. *)
ExportQueries(x, passphrase) ==
    IF ~(starts_with(trim_start(x), HEADER) /\ ends_with(trim_end(x), FOOTER))
    THEN {}
    ELSE DecryptQueries(StripMarkerLines(x), passphrase)

-----------------------------------------------------------------------------
(* matrix_qrcode/src/utils.rs *)

QR_HEADER == <<77, 65, 84, 82, 73, 88>>     \* b"MATRIX"
QR_VERSION == 2
MAX_MODE == 2
U16_MAX == 65535

base64_decode(data) == decode(data)

(* Mutant of to_bytes: the flow id is written without its length. *)
to_bytes_no_length(mode, flow_id, first_key, second_key, shared_secret) ==
    LET k1 == base64_decode(first_key)
        k2 == base64_decode(second_key)
        k3 == base64_decode(shared_secret)
    IN IF Len(flow_id) > U16_MAX THEN [ok |-> FALSE, err |-> "TryFromInt"]
       ELSE IF ~k1.ok \/ ~k2.ok \/ ~k3.ok THEN [ok |-> FALSE, err |-> "Base64"]
       ELSE [ok |-> TRUE,
             data |-> QR_HEADER \o <<QR_VERSION>> \o <<mode>> \o flow_id
                      \o k1.bytes \o k2.bytes \o k3.bytes]

(* Mutant of to_bytes: the length of the flow id is written little-endian. *)
to_bytes_le_length(mode, flow_id, first_key, second_key, shared_secret) ==
    LET k1 == base64_decode(first_key)
        k2 == base64_decode(second_key)
        k3 == base64_decode(shared_secret)
    IN IF Len(flow_id) > U16_MAX THEN [ok |-> FALSE, err |-> "TryFromInt"]
       ELSE IF ~k1.ok \/ ~k2.ok \/ ~k3.ok THEN [ok |-> FALSE, err |-> "Base64"]
       ELSE [ok |-> TRUE,
             data |-> QR_HEADER \o <<QR_VERSION>> \o <<mode>>
                      \o << Len(flow_id) % 256, Len(flow_id) \div 256 >>
                      \o flow_id \o k1.bytes \o k2.bytes \o k3.bytes]

(* Mutant of to_bytes: the keys are decoded before the length of the flow
   id is converted. *)
to_bytes_decode_first(mode, flow_id, first_key, second_key, shared_secret) ==
    LET k1 == base64_decode(first_key)
        k2 == base64_decode(second_key)
        k3 == base64_decode(shared_secret)
    IN IF ~k1.ok \/ ~k2.ok \/ ~k3.ok THEN [ok |-> FALSE, err |-> "Base64"]
       ELSE IF Len(flow_id) > U16_MAX THEN [ok |-> FALSE, err |-> "TryFromInt"]
       ELSE [ok |-> TRUE,
             data |-> QR_HEADER \o <<QR_VERSION>> \o <<mode>>
                      \o << Len(flow_id) \div 256, Len(flow_id) % 256 >>
                      \o flow_id \o k1.bytes \o k2.bytes \o k3.bytes]

(* to_bytes: flow_id is the string's UTF-8 bytes, the three other
   arguments are base64 texts. *)
to_bytes(mode, flow_id, first_key, second_key, shared_secret) ==
    IF Len(flow_id) > U16_MAX THEN [ok |-> FALSE, err |-> "TryFromInt"]
    ELSE
      LET flow_id_len == << Len(flow_id) \div 256, Len(flow_id) % 256 >>
          k1 == base64_decode(first_key)
          k2 == base64_decode(second_key)
          k3 == base64_decode(shared_secret)
      IN IF ~k1.ok THEN [ok |-> FALSE, err |-> "Base64"]
         ELSE IF ~k2.ok THEN [ok |-> FALSE, err |-> "Base64"]
         ELSE IF ~k3.ok THEN [ok |-> FALSE, err |-> "Base64"]
         ELSE [ok |-> TRUE,
               data |-> QR_HEADER \o <<QR_VERSION>> \o <<mode>> \o flow_id_len
                        \o flow_id \o k1.bytes \o k2.bytes \o k3.bytes]

(* Bytes a version 40 symbol holds at error correction level M, the level
   QrCode::new uses, when all of them are written in byte mode. *)
QR_BYTE_CAPACITY == 2331

(* Outcomes of QrCode::new(data): data that fits in byte mode is encoded;
   longer data is encoded only if the encoder finds a denser segmentation,
   which depends on the bytes and is left open here. *)
QrCodeNew(data) ==
    IF Len(data) <= QR_BYTE_CAPACITY THEN {TRUE} ELSE {TRUE, FALSE}

(* to_qr_code; encoded says whether QrCode::new succeeded. *)
to_qr_code(mode, flow_id, first_key, second_key, shared_secret, encoded) ==
    LET data == to_bytes(mode, flow_id, first_key, second_key, shared_secret)
    IN IF ~data.ok THEN data
       ELSE IF ~encoded THEN [ok |-> FALSE, err |-> "Qr"]
       ELSE [ok |-> TRUE, symbol |-> data.data]

(* Mutant of starts_with_header: any decoded payload is accepted. *)
starts_with_anything(decoded) == TRUE

(* decoded.starts_with(HEADER), on bytes *)
starts_with_header(decoded) ==
    Len(decoded) >= Len(QR_HEADER) /\ SubSeq(decoded, 1, Len(QR_HEADER)) = QR_HEADER

(* The loop of decode_qr from grid i on; error is the Option holding the
   last decode error, << >> for None and <<e>> for Some(e).  A grid is the
   outcome of grid.decode_to: the payload, or the error of the decoder. *)
RECURSIVE ScanGrids(_, _, _)
ScanGrids(grids, i, error) ==
    IF i > Len(grids)
    THEN IF error = << >> THEN [ok |-> FALSE, err |-> "Header"]
         ELSE [ok |-> FALSE, err |-> error[1]]
    ELSE IF grids[i].ok
         THEN IF starts_with_header(grids[i].decoded)
              THEN [ok |-> TRUE, data |-> grids[i].decoded]
              ELSE ScanGrids(grids, i + 1, error)
         ELSE ScanGrids(grids, i + 1, <<grids[i].err>>)

(* decode_qr, from the grids that detect_grids found in the image *)
decode_qr(grids) == ScanGrids(grids, 1, << >>)

-----------------------------------------------------------------------------
(* matrix_sdk_crypto/src/requests.rs *)

NumUuids == 3       \* values the random generator can return
NumThreads == 2     \* threads building a request at the same time
MaxRequests == 2    \* conversions and clones followed in one behaviour

(* Uuid values.  Uuid::new_v4 takes 122 random bits from the system's
   generator and holds no state shared between callers; two calls returning
   the same value has probability 2^-122 and is left out: a call returns a
   value that no earlier call returned.  issued is the list of the values
   returned so far. *)
Uuids == 1..NumUuids
Issued(issued) == { issued[i] : i \in 1..Len(issued) }
new_v4(issued) == Uuids \ Issued(issued)

(* serde_json::value::to_raw_value(&content) *)
to_raw_value(content) == <<"RawJsonValue", content.event_type, content.body>>

(* ToDeviceRequest::new, txn_id being what Uuid::new_v4() returned *)
ToDeviceRequest_new(recipient, recipient_device, content, txn_id) ==
    LET user_messages == [d \in {recipient_device} |-> to_raw_value(content)]
        messages == [u \in {recipient} |-> user_messages]
        event_type == content.event_type
    IN [txn_id |-> txn_id, event_type |-> event_type, messages |-> messages]

(* The From impls into the enum OutgoingRequests (lines 178-206) *)
From_KeysQueryRequest(request) == [variant |-> "KeysQuery", inner |-> request]
From_KeysUploadRequest(request) == [variant |-> "KeysUpload", inner |-> request]
From_ToDeviceRequest(request) == [variant |-> "ToDeviceRequest", inner |-> request]
From_RoomMessageRequest(request) == [variant |-> "RoomMessage", inner |-> request]
From_SignatureUploadRequest(request) == [variant |-> "SignatureUpload", inner |-> request]

(* OutgoingRequests::to_device: << >> for None, <<r>> for Some(r) *)
to_device(self) ==
    IF self.variant = "ToDeviceRequest" THEN <<self.inner>> ELSE << >>

(* The From impls into OutgoingVerificationRequest (lines 338-348) *)
Verification_From_ToDeviceRequest(r) == [variant |-> "ToDevice", inner |-> r]
Verification_From_RoomMessageRequest(r) == [variant |-> "InRoom", inner |-> r]

(* OutgoingVerificationRequest::request_id *)
verification_request_id(self) ==
    CASE self.variant = "ToDevice" -> self.inner.txn_id
      [] self.variant = "InRoom" -> self.inner.txn_id

(* Mutant of From_OutgoingVerificationRequest: an in-room request becomes a
   to-device variant. *)
From_OutgoingVerificationRequest_as_ToDevice(request) ==
    [variant |-> "ToDeviceRequest", inner |-> request.inner]

(* From<OutgoingVerificationRequest> for OutgoingRequests *)
From_OutgoingVerificationRequest(request) ==
    CASE request.variant = "ToDevice" -> [variant |-> "ToDeviceRequest", inner |-> request.inner]
      [] request.variant = "InRoom" -> [variant |-> "RoomMessage", inner |-> request.inner]

(* Mutant of OutgoingRequest_From_Verification: the request gets an id of
   its own, the first value there is. *)
OutgoingRequest_From_Verification_OwnId(r) ==
    [request_id |-> 1, request |-> From_OutgoingVerificationRequest(r)]

(* From<OutgoingVerificationRequest> for OutgoingRequest *)
OutgoingRequest_From_Verification(r) ==
    [request_id |-> verification_request_id(r),
     request |-> From_OutgoingVerificationRequest(r)]

(* From<SignatureUploadRequest> for OutgoingRequest, request_id being what
   Uuid::new_v4() returned *)
OutgoingRequest_From_SignatureUpload(r, request_id) ==
    [request_id |-> request_id, request |-> From_SignatureUploadRequest(r)]

(* OutgoingRequest::request_id and OutgoingRequest::request *)
request_id(self) == self.request_id
request(self) == self.request

(* #[derive(Clone)] on OutgoingRequest: the id is copied, the Arc is shared *)
clone(self) == [request_id |-> self.request_id, request |-> self.request]

-----------------------------------------------------------------------------
(* Inputs *)

MaxGrids == 3       \* most grids detected in one image

(* Outcomes of decoding one grid: two payloads with the tag, payloads
   without it (empty, a proper prefix of the tag, six other bytes with the
   tag after them), and two errors of the decoder. *)
GridOutcomes ==
    { [ok |-> TRUE, decoded |-> d] :
        d \in { QR_HEADER \o <<QR_VERSION, 0>>, QR_HEADER \o <<QR_VERSION, 1>>,
                << >>, SubSeq(QR_HEADER, 1, 5),
                <<77, 65, 84, 82, 73, 89>> \o QR_HEADER } }
    \cup { [ok |-> FALSE, err |-> e] : e \in {"DataEcc", "FormatEcc"} }

KeyIds == {1, 2}

RECURSIVE SeqsUpTo(_, _)
SeqsUpTo(S, n) ==
    IF n = 0 THEN {<<>>}
    ELSE LET shorter == SeqsUpTo(S, n - 1)
         IN shorter \cup {Append(s, x) : s \in shorter, x \in S}

KeyLists == SeqsUpTo(KeyIds, MaxKeys)

(* "1", "1\0" and "2" as UTF-8 *)
Passphrases == { <<49>>, <<49, 0>>, <<50>> }

RoundCounts == {1, 100000}

(* What getrandom may return for (salt, iv): all zero; all ones; a salt
   with only the top bit of the iv; a salt with only bit 63 of the iv. *)
Randomness ==
    { [salt |-> Repeat(0, SALT_SIZE), iv |-> Repeat(0, IV_SIZE)],
      [salt |-> Repeat(255, SALT_SIZE), iv |-> Repeat(255, IV_SIZE)],
      [salt |-> [i \in 1..SALT_SIZE |-> i],
       iv |-> [i \in 1..IV_SIZE |-> IF i = 1 THEN 128 ELSE 0]],
      [salt |-> [i \in 1..SALT_SIZE |-> i],
       iv |-> [i \in 1..IV_SIZE |-> IF i = 9 THEN 128 ELSE 0]] }

(* Plaintexts given to encrypt_helper directly: "", "a", U+00E9, "[1" *)
Plaintexts == { <<>>, <<97>>, <<195, 169>>, <<91, 49>> }

(* The draws of the exports that are then damaged in transit. *)
TransitKeyLists == { <<1>>, <<2, 1>> }
TransitPlaintexts == { <<>>, <<195, 169>> }
TransitRandomness ==
    { [salt |-> Repeat(0, SALT_SIZE), iv |-> Repeat(0, IV_SIZE)],
      [salt |-> [i \in 1..SALT_SIZE |-> i], iv |-> Repeat(255, IV_SIZE)] }

(* Ciphertext bodies a forger writes *)
ForgedBodies == { <<>>, <<255>>, <<91, 93>> }

(* Whitespace put before or after an export *)
WsRuns == { <<>>, <<" ">>, <<NL>>, <<NL, "\t">> }

(* Decoded lengths an export is cut down to *)
TruncatedLens == {0, 1, HEADER_LEN - 1, HEADER_LEN, HEADER_LEN + MAC_SIZE - 1}

OtherVersions == {0, 2}

(* Arguments of to_bytes: every mode with short flow ids and keys of zero
   or one byte ("" and "AQ"), then flow ids around the one-byte and the
   two-byte limits of the length, then keys that are not base64. *)
QrArguments ==
    { [mode |-> m, flow_id |-> f, first_key |-> a, second_key |-> b, shared_secret |-> c] :
        m \in (0..MAX_MODE) \cup {255}, f \in {<<>>, <<1>>},
        a \in {<<>>, <<"A", "Q">>}, b \in {<<>>, <<"A", "Q">>}, c \in {<<>>, <<"A", "Q">>} }
    \cup
    { [mode |-> 0, flow_id |-> Repeat(1, n), first_key |-> <<>>, second_key |-> <<>>,
       shared_secret |-> <<>>] : n \in {256, U16_MAX, U16_MAX + 1} }
    \cup
    { [mode |-> 1, flow_id |-> <<1>>, first_key |-> a, second_key |-> b, shared_secret |-> c] :
        a \in {<<>>, <<"A">>}, b \in {<<>>, <<"A", "R">>}, c \in {<<>>, <<"*", "A">>} }
    \cup
    { [mode |-> 2, flow_id |-> Repeat(1, U16_MAX + 1), first_key |-> <<"A">>,
       second_key |-> <<>>, shared_secret |-> <<>>] }

(* Requests as their callers hand them over.  A RoomMessageRequest has no
   constructor here: its txn_id is whatever the caller wrote in the field. *)
Contents ==
    { [event_type |-> "m.key.verification.start", body |-> "start"],
      [event_type |-> "m.room_key_request", body |-> "request"] }
ToDeviceArguments ==
    { [recipient |-> "@bob:example.org", recipient_device |-> "BOBDEVICE",
       content |-> [event_type |-> "m.key.verification.start", body |-> "start"]],
      [recipient |-> "@bob:example.org", recipient_device |-> "AllDevices",
       content |-> [event_type |-> "m.room_key_request", body |-> "request"]] }
ToDeviceRequests ==
    { ToDeviceRequest_new(a.recipient, a.recipient_device, a.content, id) :
        a \in ToDeviceArguments, id \in Uuids }
RoomMessageRequests ==
    { [room_id |-> "!room:example.org", txn_id |-> id,
       content |-> [event_type |-> "m.key.verification.ready", body |-> "ready"]] :
        id \in Uuids }
KeysQueryRequests ==
    { [timeout |-> << >>, device_keys |-> k, token |-> << >>] :
        k \in { << >>, <<"@bob:example.org">> } }
KeysUploadRequests == { [device_keys |-> "keys", one_time_keys |-> << >>] }
SignatureUploadRequests == { [signed_keys |-> "@bob:example.org"] }
VerificationRequests ==
    { Verification_From_ToDeviceRequest(r) : r \in ToDeviceRequests }
    \cup { Verification_From_RoomMessageRequest(r) : r \in RoomMessageRequests }

NoResult == [called |-> "none"]
NoEnc == [kind |-> "none"]
NoCarrier == [payload |-> <<>>, text |-> <<>>, edits |-> {}]
NoQr == << >>
NoThreads == << >>

-----------------------------------------------------------------------------
(* State machine *)

Init ==
    /\ enc = NoEnc
    /\ carrier = NoCarrier
    /\ dec = NoResult
    /\ hmacTable = << >>
    /\ qr = NoQr
    /\ code = << >>
    /\ scan = << >>
    /\ rng = << >>
    /\ threads = NoThreads
    /\ outgoing = << >>

(* The text of a payload: armored for decrypt_key_export, bare base64 for a
   direct decrypt_helper call. *)
Wrap(kind, payload) ==
    IF kind = "helper" THEN encode(payload)
    ELSE join3(<<HEADER>>, encode(payload), <<FOOTER>>)

(* One encryption: the oracle answers its query, the export is handed to
   the carrier.  One export is followed per behaviour. *)
Encrypted(kind, keys, plaintext, passphrase, rounds, rnd) ==
    /\ enc.kind = "none"
    /\ \E table \in Sample(hmacTable,
                           EncryptQuery(plaintext, passphrase, rounds, rnd.salt, rnd.iv),
                           <<>>) :
          LET payload == EncryptPayload(plaintext, passphrase, rounds, rnd.salt, rnd.iv, table)
              text == IF kind = "export"
                      THEN encrypt_key_export(keys, passphrase, rounds, rnd.salt, rnd.iv, table)
                      ELSE encrypt_helper(plaintext, passphrase, rounds, rnd.salt, rnd.iv, table)
          IN /\ hmacTable' = table
             /\ enc' = [kind |-> kind, keys |-> keys, plaintext |-> plaintext,
                        passphrase |-> passphrase, rounds |-> rounds,
                        salt |-> rnd.salt, iv |-> rnd.iv,
                        cipher_iv |-> CipherIv(rnd.iv),
                        mac_input |-> EncryptMacInput(
                            EncryptBody(plaintext, passphrase, rounds, rnd.salt, rnd.iv)),
                        payload |-> payload, text |-> text]
             /\ carrier' = [payload |-> payload, text |-> text, edits |-> {}]
    /\ dec' = NoResult
    /\ UNCHANGED <<qr, others>>

(* encrypt_key_export(keys, passphrase, rounds) *)
EncryptKeyExport ==
    \E keys \in KeyLists, passphrase \in Passphrases, rounds \in RoundCounts,
       rnd \in Randomness :
        Encrypted("export", keys, to_string(keys), passphrase, rounds, rnd)

(* encrypt_helper(plaintext, passphrase, rounds), called directly *)
EncryptHelper ==
    \E plaintext \in Plaintexts, passphrase \in Passphrases, rounds \in RoundCounts,
       rnd \in Randomness :
        Encrypted("helper", <<>>, plaintext, passphrase, rounds, rnd)

(* The same two calls, for the exports that are damaged in transit. *)
EncryptKeyExportForTransit ==
    \E keys \in TransitKeyLists, passphrase \in Passphrases, rounds \in RoundCounts,
       rnd \in TransitRandomness :
        Encrypted("export", keys, to_string(keys), passphrase, rounds, rnd)

EncryptHelperForTransit ==
    \E plaintext \in TransitPlaintexts, passphrase \in Passphrases,
       rounds \in RoundCounts, rnd \in TransitRandomness :
        Encrypted("helper", <<>>, plaintext, passphrase, rounds, rnd)

(* Environment: someone who knows a passphrase writes a payload by hand and
   computes its MAC.  With short = TRUE the payload is one byte shorter than
   header + MAC, so that its last header byte is also its first MAC byte. *)
Forge ==
    /\ enc.kind = "none"
    /\ \E passphrase \in Passphrases, rounds \in RoundCounts,
          rnd \in TransitRandomness,
          version \in {VERSION} \cup OtherVersions, body \in ForgedBodies,
          short \in BOOLEAN :
         LET hdr == <<version>> \o rnd.salt \o rnd.iv \o u32_to_be_bytes(rounds)
             data == IF short THEN SubSeq(hdr, 1, HEADER_LEN - 1) ELSE hdr \o body
             q == << HmacKey(pbkdf2(passphrase, rnd.salt, rounds)), data >>
         IN /\ short => body = <<>>
            /\ \E table \in Sample(hmacTable, q, <<>>) :
                 LET payload == data \o Tag(table[q])
                 IN /\ short => payload[HEADER_LEN] = hdr[HEADER_LEN]
                    /\ hmacTable' = table
                    /\ enc' = [kind |-> "forged", passphrase |-> passphrase,
                               short |-> short, version |-> version,
                               payload |-> payload, text |-> Wrap("forged", payload)]
                    /\ carrier' = [payload |-> payload, text |-> Wrap("forged", payload),
                                   edits |-> {}]
    /\ dec' = NoResult
    /\ UNCHANGED <<qr, others>>

CanEditPayload ==
    /\ enc.kind \in {"export", "helper"}
    /\ dec.called = "none"
    /\ carrier.edits \subseteq {"version"}

(* Environment: one byte of the ciphertext or of the MAC is changed. *)
TamperByte ==
    /\ CanEditPayload /\ carrier.edits = {}
    /\ \E i \in (HEADER_LEN + 1)..Len(carrier.payload) :
         LET p == [carrier.payload EXCEPT ![i] = (@ + 1) % 256]
         IN carrier' = [payload |-> p, text |-> Wrap(enc.kind, p),
                        edits |-> { IF i > Len(p) - MAC_SIZE THEN "mac" ELSE "ciphertext" }]
    /\ UNCHANGED <<enc, dec, hmacTable, qr, others>>

(* Environment: the version byte is replaced. *)
SetVersion ==
    /\ CanEditPayload /\ carrier.edits = {}
    /\ \E v \in OtherVersions :
         LET p == [carrier.payload EXCEPT ![1] = v]
         IN carrier' = [payload |-> p, text |-> Wrap(enc.kind, p), edits |-> {"version"}]
    /\ UNCHANGED <<enc, dec, hmacTable, qr, others>>

(* Environment: the payload is cut short. *)
Truncate ==
    /\ CanEditPayload
    /\ \E n \in TruncatedLens :
         LET p == SubSeq(carrier.payload, 1, n)
         IN carrier' = [payload |-> p, text |-> Wrap(enc.kind, p),
                        edits |-> carrier.edits \cup {"truncated"}]
    /\ UNCHANGED <<enc, dec, hmacTable, qr, others>>

(* Environment: whitespace is put around the whole armored text. *)
Surround ==
    /\ enc.kind = "export" /\ dec.called = "none" /\ carrier.edits = {}
    /\ \E lead \in WsRuns, trail \in WsRuns :
         /\ lead \o trail # <<>>
         /\ carrier' = [carrier EXCEPT !.text = lead \o @ \o trail,
                                       !.edits = {"whitespace"}]
    /\ UNCHANGED <<enc, dec, hmacTable, qr, others>>

(* Environment: a marker line is lost, or a character that is not base64
   gets into the payload line. *)
Mangle ==
    /\ enc.kind = "export" /\ dec.called = "none" /\ carrier.edits = {}
    /\ \E how \in {"no header", "no footer", "junk"} :
         carrier' = [carrier EXCEPT
            !.text = CASE how = "no header" -> Tail(@)
                       [] how = "no footer" -> SubSeq(@, 1, Len(@) - 1)
                       [] how = "junk" -> SubSeq(@, 1, 2) \o <<"*">> \o SubSeq(@, 3, Len(@)),
            !.edits = {how}]
    /\ UNCHANGED <<enc, dec, hmacTable, qr, others>>

(* The oracle tables after the queries in qs were answered (at most one). *)
Answered(table, qs) ==
    IF qs = {} THEN {table}
    ELSE LET x == CHOOSE y \in qs : TRUE IN Sample(table, x.q, x.mac)

(* decrypt_key_export(Cursor::new(text), passphrase); an export is
   imported once. *)
DecryptKeyExport ==
    /\ enc.kind \in {"export", "forged"}
    /\ dec.called = "none"
    /\ \E passphrase \in Passphrases :
         \E table \in Answered(hmacTable, ExportQueries(carrier.text, passphrase)) :
            /\ hmacTable' = table
            /\ dec' = [called |-> "decrypt_key_export", passphrase |-> passphrase]
                      @@ decrypt_key_export(carrier.text, passphrase, table)
    /\ UNCHANGED <<enc, carrier, qr, others>>

(* decrypt_helper(&text, passphrase), called directly *)
DecryptHelper ==
    /\ enc.kind = "helper"
    /\ dec.called = "none"
    /\ \E passphrase \in Passphrases :
         \E table \in Answered(hmacTable, DecryptQueries(carrier.text, passphrase)) :
            /\ hmacTable' = table
            /\ dec' = [called |-> "decrypt_helper", passphrase |-> passphrase]
                      @@ decrypt_helper(carrier.text, passphrase, table)
    /\ UNCHANGED <<enc, carrier, qr, others>>

(* to_bytes(mode, flow_id, first_key, second_key, shared_secret); two
   calls are followed, to compare their buffers. *)
ToBytes ==
    /\ Len(qr) < 2
    /\ \E a \in QrArguments :
         qr' = Append(qr, [args |-> a,
                           result |-> to_bytes(a.mode, a.flow_id, a.first_key,
                                               a.second_key, a.shared_secret)])
    /\ UNCHANGED <<enc, carrier, dec, hmacTable, others>>

SpecQr == Init /\ [][ToBytes]_vars

(* to_bytes called once, to set beside the call of to_qr_code *)
ToBytesOnce ==
    /\ qr = NoQr
    /\ ToBytes

(* to_qr_code(mode, flow_id, first_key, second_key, shared_secret) *)
ToQrCode ==
    /\ code = << >>
    /\ \E a \in QrArguments :
         LET data == to_bytes(a.mode, a.flow_id, a.first_key, a.second_key,
                              a.shared_secret)
         IN \E encoded \in (IF data.ok THEN QrCodeNew(data.data) ELSE {FALSE}) :
              code' = Append(code,
                        [args |-> a,
                         result |-> to_qr_code(a.mode, a.flow_id, a.first_key,
                                               a.second_key, a.shared_secret,
                                               encoded)])
    /\ UNCHANGED <<enc, carrier, dec, hmacTable, qr, scan, rng, threads, outgoing>>

(* decode_qr(image), the image given by the grids detected in it *)
DecodeQr ==
    /\ scan = << >>
    /\ \E grids \in SeqsUpTo(GridOutcomes, MaxGrids) :
         scan' = Append(scan, [grids |-> grids, result |-> decode_qr(grids)])
    /\ UNCHANGED <<enc, carrier, dec, hmacTable, qr, code, rng, threads, outgoing>>

SpecScan == Init /\ [][DecodeQr]_vars

(* A conversion or a clone is recorded with the value it consumed. *)
Converted(via, source, value) ==
    /\ Len(outgoing) < MaxRequests
    /\ outgoing' = Append(outgoing, [via |-> via, source |-> source, value |-> value])
    /\ UNCHANGED <<enc, carrier, dec, hmacTable, qr, code, scan, rng, threads>>

(* request.into(), for each of the five kinds *)
IntoKeysQuery ==
    \E r \in KeysQueryRequests :
        Converted("KeysQueryRequest", r, From_KeysQueryRequest(r))
IntoKeysUpload ==
    \E r \in KeysUploadRequests :
        Converted("KeysUploadRequest", r, From_KeysUploadRequest(r))
IntoToDevice ==
    \E r \in ToDeviceRequests :
        Converted("ToDeviceRequest", r, From_ToDeviceRequest(r))
IntoRoomMessage ==
    \E r \in RoomMessageRequests :
        Converted("RoomMessageRequest", r, From_RoomMessageRequest(r))
IntoSignatureUpload ==
    \E r \in SignatureUploadRequests :
        Converted("SignatureUploadRequest", r, From_SignatureUploadRequest(r))

(* OutgoingRequests::from(verification_request) *)
VerificationIntoRequests ==
    \E r \in VerificationRequests :
        Converted("OutgoingVerificationRequest", r, From_OutgoingVerificationRequest(r))

(* OutgoingRequest::from(verification_request) *)
VerificationIntoRequest ==
    \E r \in VerificationRequests :
        Converted("OutgoingRequest::from", r, OutgoingRequest_From_Verification(r))

(* request.clone(), of an OutgoingRequest built before *)
CloneRequest ==
    \E i \in 1..Len(outgoing) :
        /\ outgoing[i].via \in {"OutgoingRequest::from", "clone"}
        /\ Converted("clone", outgoing[i].value, clone(outgoing[i].value))

NextConvert ==
    \/ IntoKeysQuery
    \/ IntoKeysUpload
    \/ IntoToDevice
    \/ IntoRoomMessage
    \/ IntoSignatureUpload
    \/ VerificationIntoRequests
    \/ VerificationIntoRequest
    \/ CloneRequest

SpecConvert == Init /\ [][NextConvert]_vars

(* Mutant of DrawnBy: the id is read from a slot that all threads share,
   the one holding the value drawn last. *)
LastDrawn(ths, t, issued) == issued[Len(issued)]

(* The id a thread puts in the request it builds: the one it drew. *)
DrawnBy(ths, t, issued) == ths[t].uuid

(* A thread enters ToDeviceRequest::new. *)
CallToDeviceRequestNew ==
    /\ Len(threads) < NumThreads
    /\ \E a \in ToDeviceArguments :
         threads' = Append(threads, [pc |-> "called", call |-> "ToDeviceRequest::new",
                                     args |-> a, uuid |-> 0])
    /\ UNCHANGED <<enc, carrier, dec, hmacTable, qr, code, scan, rng, outgoing>>

(* A thread enters OutgoingRequest::from(signature_upload_request). *)
CallFromSignatureUpload ==
    /\ Len(threads) < NumThreads
    /\ \E r \in SignatureUploadRequests :
         threads' = Append(threads, [pc |-> "called", call |-> "From<SignatureUploadRequest>",
                                     args |-> r, uuid |-> 0])
    /\ UNCHANGED <<enc, carrier, dec, hmacTable, qr, code, scan, rng, outgoing>>

(* Uuid::new_v4() returns in thread t. *)
Draw(t) ==
    /\ threads[t].pc = "called"
    /\ \E u \in new_v4(rng) :
         /\ rng' = Append(rng, u)
         /\ threads' = [threads EXCEPT ![t].pc = "drawn", ![t].uuid = u]
    /\ UNCHANGED <<enc, carrier, dec, hmacTable, qr, code, scan, outgoing>>

(* Thread t builds its request around the id and hands it on: the
   ToDeviceRequest goes into an OutgoingRequest by way of
   OutgoingVerificationRequest. *)
Publish(t) ==
    /\ threads[t].pc = "drawn"
    /\ LET id == DrawnBy(threads, t, rng)
           a == threads[t].args
           built ==
             IF threads[t].call = "ToDeviceRequest::new"
             THEN OutgoingRequest_From_Verification(
                    Verification_From_ToDeviceRequest(
                      ToDeviceRequest_new(a.recipient, a.recipient_device, a.content, id)))
             ELSE OutgoingRequest_From_SignatureUpload(a, id)
       IN outgoing' = Append(outgoing, [via |-> threads[t].call, thread |-> t, value |-> built])
    /\ threads' = [threads EXCEPT ![t].pc = "done"]
    /\ UNCHANGED <<enc, carrier, dec, hmacTable, qr, code, scan, rng>>

NextThreads ==
    \/ CallToDeviceRequestNew
    \/ CallFromSignatureUpload
    \/ \E t \in 1..Len(threads) : Draw(t)
    \/ \E t \in 1..Len(threads) : Publish(t)

SpecThreads == Init /\ [][NextThreads]_vars

NextQrCode ==
    \/ ToBytesOnce
    \/ ToQrCode

SpecQrCode == Init /\ [][NextQrCode]_vars

(* Exports of every draw, carried as they are or within whitespace. *)
NextExport ==
    \/ EncryptKeyExport
    \/ EncryptHelper
    \/ Surround
    \/ DecryptKeyExport
    \/ DecryptHelper

SpecExport == Init /\ [][NextExport]_vars

(* Exports damaged in transit, and payloads written by hand. *)
NextTransit ==
    \/ EncryptKeyExportForTransit
    \/ EncryptHelperForTransit
    \/ Forge
    \/ TamperByte
    \/ SetVersion
    \/ Truncate
    \/ Mangle
    \/ DecryptKeyExport
    \/ DecryptHelper

SpecTransit == Init /\ [][NextTransit]_vars

-----------------------------------------------------------------------------
(* Properties of the key export codec *)

Decrypted == dec.called # "none"

Returned(r, value) == r.res = "Ok" /\ r.out = value

FailedWith(r, err) == r.res = "Err" /\ r.err = err /\ "out" \notin DOMAIN r

Occurs(steps, a) == \E i \in 1..Len(steps) : steps[i] = a

Precedes(steps, a, b) ==
    \E i, j \in 1..Len(steps) : i < j /\ steps[i] = a /\ steps[j] = b

(* The export reached the decrypt call as it left the encrypt call. *)
Pristine == enc.kind \in {"export", "helper"} /\ carrier.edits = {}

(* C1: decrypting what encrypt_key_export produced, with the passphrase it
   was encrypted with, succeeds and returns the key list in its order,
   whatever salt and iv were drawn; decrypt_helper returns the plaintext
   that encrypt_helper was given, the empty one included. *)
C1_RoundTrip ==
    (Decrypted /\ Pristine /\ dec.passphrase = enc.passphrase) =>
        /\ enc.kind = "export" => Returned(dec, enc.keys)
        /\ enc.kind = "helper" => Returned(dec, enc.plaintext)

C1_Witness ==
    /\ Decrypted /\ Pristine /\ dec.passphrase = enc.passphrase
    /\ enc.kind = "export" /\ enc.keys = <<2, 1>> /\ enc.rounds = 100000
    /\ enc.iv = Repeat(255, IV_SIZE)
    /\ Returned(dec, <<2, 1>>)

(* The MAC queries of the decrypt call that produced dec, with the MAC
   bytes its input carries. *)
MacQueries ==
    IF dec.called = "decrypt_helper" THEN DecryptQueries(carrier.text, dec.passphrase)
    ELSE ExportQueries(carrier.text, dec.passphrase)

MacCheckFails ==
    \E x \in MacQueries : HmacSha256(hmacTable, x.q[1], x.q[2]) # x.mac

(* C2: the cipher runs only after the MAC was computed and found equal;
   when the MAC differs the call returns InvalidMac, the cipher was not
   applied and no decrypted bytes are returned. *)
C2_AuthenticateThenDecrypt ==
    Decrypted =>
        /\ Occurs(dec.steps, "aes") =>
              Precedes(dec.steps, "hmac", "aes") /\ ~MacCheckFails
        /\ MacCheckFails =>
              FailedWith(dec, "InvalidMac") /\ ~Occurs(dec.steps, "aes")

C2_Witness ==
    /\ Decrypted /\ MacCheckFails /\ FailedWith(dec, "InvalidMac")
    /\ carrier.edits = {"ciphertext"}

(* C3: an export with one byte of its ciphertext or of its MAC changed
   fails to decrypt, under the passphrase it was encrypted with, with
   InvalidMac. *)
C3_TamperDetected ==
    (Decrypted /\ enc.kind \in {"export", "helper"}
               /\ carrier.edits \in {{"ciphertext"}, {"mac"}}
               /\ dec.passphrase = enc.passphrase) =>
        FailedWith(dec, "InvalidMac")

C3_Witness ==
    /\ Decrypted /\ enc.kind = "export" /\ carrier.edits = {"mac"}
    /\ dec.passphrase = enc.passphrase
    /\ carrier.payload[Len(carrier.payload)] # enc.payload[Len(enc.payload)]
    /\ FailedWith(dec, "InvalidMac")

(* C4 as claimed: an export decrypted with any passphrase other than the
   one it was encrypted with fails with InvalidMac. *)
C4_AnyOtherPassphraseFails ==
    (Decrypted /\ Pristine /\ enc.kind = "export"
               /\ dec.passphrase # enc.passphrase) =>
        FailedWith(dec, "InvalidMac")

(* C4 as amended: an export decrypted with a passphrase whose HMAC key
   block differs from that of the passphrase it was encrypted with fails
   with InvalidMac; with a passphrase of the same key block (the same
   passphrase followed by NUL characters) it decrypts to the keys. *)
C4_OtherKeyBlockFails ==
    (Decrypted /\ Pristine /\ enc.kind = "export") =>
        IF HmacKeyBlock(dec.passphrase) # HmacKeyBlock(enc.passphrase)
        THEN FailedWith(dec, "InvalidMac")
        ELSE Returned(dec, enc.keys)

C4_Witness ==
    /\ Decrypted /\ Pristine /\ enc.kind = "export"
    /\ enc.passphrase = <<49>> /\ dec.passphrase = <<50>>
    /\ FailedWith(dec, "InvalidMac")

(* The payload in the carrier reaches decrypt_helper: the armor is intact
   and the payload is not empty. *)
PayloadDelivered ==
    /\ carrier.edits \subseteq {"version", "truncated", "ciphertext", "mac"}
    /\ Len(carrier.payload) >= 1

(* C5: a payload whose version byte is not VERSION is rejected with
   UnsupportedVersion, whatever the rest of it is. *)
C5_VersionGating ==
    (Decrypted /\ PayloadDelivered /\ carrier.payload[1] # VERSION) =>
        FailedWith(dec, "UnsupportedVersion")

(* C6: decrypting returns a result or a typed error, and never panics. *)
C6_NoPanic == Decrypted => dec.res \in {"Ok", "Err"}

(* C7: whitespace around a valid export leaves the result of decrypting
   it unchanged. *)
C7_WhitespaceTolerated ==
    (Decrypted /\ enc.kind = "export" /\ carrier.edits = {"whitespace"}
               /\ dec.passphrase = enc.passphrase) =>
        LET plain == decrypt_key_export(enc.text, dec.passphrase, hmacTable)
        IN dec.res = plain.res /\ (plain.res = "Ok" => dec.out = plain.out)

(* C8: the payload is version, salt, iv, rounds (big-endian), ciphertext
   as long as the plaintext, then the MAC of every byte before it; the
   decrypt side takes the last 32 bytes as the MAC and verifies it over
   the same bytes [0, len - 32). *)
C8_PayloadLayout ==
    enc.kind \in {"export", "helper"} =>
        LET p == enc.payload
            n == Len(p)
            f == ReadFields(p)
        IN /\ n = 1 + 16 + 16 + 4 + Len(enc.plaintext) + 32
           /\ p[1] = 1
           /\ SubSeq(p, 2, 17) = enc.salt
           /\ SubSeq(p, 18, 33) = enc.cipher_iv
           /\ p[34] * 16777216 + p[35] * 65536 + p[36] * 256 + p[37] = enc.rounds
           /\ enc.mac_input = SubSeq(p, 1, n - 32)
           /\ SubSeq(p, n - 31, n)
                = Tag(hmacTable[<< HmacKey(pbkdf2(enc.passphrase, enc.salt, enc.rounds)),
                                   SubSeq(p, 1, n - 32) >>])
           /\ f.ok /\ f.mac = SubSeq(p, n - 31, n)
           /\ DecryptMacInput(p, f) = enc.mac_input

C8_Witness ==
    /\ enc.kind = "export" /\ enc.rounds = 100000 /\ Len(enc.plaintext) = 5
    /\ enc.salt = [i \in 1..SALT_SIZE |-> i]

(* The 128-bit iv written into the payload, as bits. *)
WrittenIv == from_be_bytes(SubSeq(enc.payload, 18, 33))

(* C9 as claimed: the iv that seeds the cipher and is written into the
   payload has its most significant bit cleared. *)
C9_TopBitCleared ==
    enc.kind \in {"export", "helper"} =>
        /\ WrittenIv[127] = 0
        /\ enc.cipher_iv = SubSeq(enc.payload, 18, 33)

(* C9 as amended: the iv that seeds the cipher and is written into the
   payload has bit 63 cleared (the top bit of its low 64 bits), and the
   value that seeds the cipher is the value written. *)
C9_Bit63Cleared ==
    enc.kind \in {"export", "helper"} =>
        /\ WrittenIv[63] = 0
        /\ enc.cipher_iv = SubSeq(enc.payload, 18, 33)

C9_Witness ==
    /\ enc.kind = "export" /\ enc.iv = Repeat(255, IV_SIZE)
    /\ WrittenIv[63] = 0 /\ WrittenIv[127] = 1

-----------------------------------------------------------------------------
(* Properties of the verification payload codec *)

(* What a call encodes: the mode, the flow id and the three decoded fields. *)
Encoded(call) ==
    << call.args.mode, call.args.flow_id,
       base64_decode(call.args.first_key).bytes,
       base64_decode(call.args.second_key).bytes,
       base64_decode(call.args.shared_secret).bytes >>

SameBuffer(c, d) == c.result.ok /\ d.result.ok /\ c.result.data = d.result.data

(* C10 as claimed: the buffer determines (mode, flow_id, k1, k2, secret):
   two calls that return the same buffer encoded the same tuple. *)
C10_BufferDeterminesTuple ==
    \A i, j \in 1..Len(qr) :
        SameBuffer(qr[i], qr[j]) => Encoded(qr[i]) = Encoded(qr[j])

(* C10 as amended: the buffer determines the tuple among the tuples whose
   first keys are equally long and whose second keys are equally long. *)
C10_BufferDeterminesTupleOfKnownLengths ==
    \A i, j \in 1..Len(qr) :
        ( /\ SameBuffer(qr[i], qr[j])
          /\ Len(Encoded(qr[i])[3]) = Len(Encoded(qr[j])[3])
          /\ Len(Encoded(qr[i])[4]) = Len(Encoded(qr[j])[4]) )
        => Encoded(qr[i]) = Encoded(qr[j])

C10_Witness ==
    /\ Len(qr) = 2 /\ qr[1].result.ok /\ qr[2].result.ok
    /\ qr[1].args.mode = 2 /\ qr[2].args.mode = 2
    /\ Encoded(qr[1])[3] = <<1>> /\ Encoded(qr[2])[3] = <<1>>
    /\ Encoded(qr[1])[5] = <<>> /\ Encoded(qr[2])[5] = <<1>>
    /\ qr[1].args.flow_id = qr[2].args.flow_id
    /\ qr[1].result.data # qr[2].result.data

(* The decoded bytes of a base64 argument of a call. *)
Raw(text) == base64_decode(text).bytes

(* C11: whenever to_bytes succeeds, for every mode byte, the buffer is
   "MATRIX" || 0x02 || mode || N as two big-endian bytes || the N bytes of
   flow_id || raw first_key || raw second_key || raw shared_secret, the
   three last being the base64-decoded arguments, and its length is
   10 + N + |first_key| + |second_key| + |shared_secret|. *)
C11_RecordLayout ==
    \A i \in 1..Len(qr) :
        qr[i].result.ok =>
            LET a == qr[i].args
                data == qr[i].result.data
                N == Len(a.flow_id)
                fields == Raw(a.first_key) \o Raw(a.second_key) \o Raw(a.shared_secret)
            IN /\ Len(data) = 10 + N + Len(Raw(a.first_key)) + Len(Raw(a.second_key))
                                + Len(Raw(a.shared_secret))
               /\ SubSeq(data, 1, 6) = <<77, 65, 84, 82, 73, 88>>
               /\ data[7] = 2
               /\ data[8] = a.mode
               /\ data[9] * 256 + data[10] = N
               /\ SubSeq(data, 11, 10 + N) = a.flow_id
               /\ SubSeq(data, 11 + N, Len(data)) = fields

(* A call with a mode above MAX_MODE and one with a flow id of 256 bytes,
   both successful, the first with a one-byte key and secret. *)
C11_Witness ==
    /\ Len(qr) = 2 /\ qr[1].result.ok /\ qr[2].result.ok
    /\ qr[1].args.mode = 255 /\ Raw(qr[1].args.first_key) = <<1>>
    /\ Raw(qr[1].args.shared_secret) = <<1>> /\ Len(qr[1].args.flow_id) = 1
    /\ Len(qr[1].result.data) = 13
    /\ Len(qr[2].args.flow_id) = 256 /\ Len(qr[2].result.data) = 266

(* The arguments of a call that to_bytes cannot encode. *)
TooLong(a) == Len(a.flow_id) > 65535
NotBase64(a) ==
    \/ ~base64_decode(a.first_key).ok
    \/ ~base64_decode(a.second_key).ok
    \/ ~base64_decode(a.shared_secret).ok

(* C12: to_bytes fails iff the flow id is longer than 65535 bytes or one
   of the three other arguments is not valid unpadded base64; the length is
   checked first; a failure carries an error and no buffer; and to_qr_code
   fails whenever to_bytes fails on the same arguments. *)
C12_EncodeFailures ==
    /\ \A i \in 1..Len(qr) :
          LET a == qr[i].args
              r == qr[i].result
          IN /\ ~r.ok <=> (TooLong(a) \/ NotBase64(a))
             /\ TooLong(a) => r.err = "TryFromInt"
             /\ (NotBase64(a) /\ ~TooLong(a)) => r.err = "Base64"
             /\ ~r.ok => DOMAIN r = {"ok", "err"}
    /\ \A j \in 1..Len(code) :
          LET a == code[j].args
              r == code[j].result
          IN /\ (TooLong(a) \/ NotBase64(a)) => (~r.ok /\ DOMAIN r = {"ok", "err"})
             /\ \A i \in 1..Len(qr) :
                   (qr[i].args = a /\ ~qr[i].result.ok) => r = qr[i].result

(* Both calls made on a flow id that is too long together with a key that
   is not base64, and both failed on the length. *)
C12_Witness ==
    /\ Len(qr) = 1 /\ Len(code) = 1
    /\ qr[1].args = code[1].args
    /\ TooLong(qr[1].args) /\ NotBase64(qr[1].args)
    /\ ~qr[1].result.ok /\ ~code[1].result.ok
    /\ qr[1].result.err = "TryFromInt"

(* The grids of a scan that decoded, with and without the tag. *)
Tagged(g) ==
    g.ok /\ Len(g.decoded) >= 6 /\ SubSeq(g.decoded, 1, 6) = <<77, 65, 84, 82, 73, 88>>
Untagged(g) == g.ok /\ ~Tagged(g)
Scanned == Len(scan) = 1

(* C13: decode_qr returns Ok(p) iff some grid decodes to a payload whose
   first 6 bytes are "MATRIX", p is then the payload of the first such
   grid whatever came before it, and no payload without the tag (shorter
   than 6 bytes included) is ever returned. *)
C13_ScanAcceptance ==
    Scanned =>
        LET grids == scan[1].grids
            r == scan[1].result
            hits == { i \in 1..Len(grids) : Tagged(grids[i]) }
        IN /\ r.ok <=> hits # {}
           /\ r.ok => /\ \E i \in hits : /\ \A j \in hits : i <= j
                                           /\ r.data = grids[i].decoded
                      /\ Len(r.data) >= 6
                      /\ SubSeq(r.data, 1, 6) = <<77, 65, 84, 82, 73, 88>>

(* A payload without the tag and a decode error came first, then two
   different payloads with the tag; the first of these was returned. *)
C13_Witness ==
    /\ Scanned /\ Len(scan[1].grids) = 3
    /\ ~scan[1].grids[1].ok
    /\ Tagged(scan[1].grids[2]) /\ Tagged(scan[1].grids[3])
    /\ scan[1].grids[2].decoded # scan[1].grids[3].decoded
    /\ scan[1].result.ok /\ scan[1].result.data = scan[1].grids[2].decoded

(* C14 as claimed: when no grid decodes to a payload with the tag,
   decode_qr fails with Header if at least one grid decoded without the
   tag, and otherwise with the error of the last grid that failed to
   decode. *)
C14_ScanFailureKind ==
    Scanned =>
        LET grids == scan[1].grids
            r == scan[1].result
            failed == { i \in 1..Len(grids) : ~grids[i].ok }
        IN (\A i \in 1..Len(grids) : ~Tagged(grids[i])) =>
              /\ ~r.ok
              /\ (\E i \in 1..Len(grids) : Untagged(grids[i])) => r.err = "Header"
              /\ ((\A i \in 1..Len(grids) : ~Untagged(grids[i])) /\ failed # {}) =>
                    \E i \in failed : /\ \A j \in failed : j <= i
                                       /\ r.err = grids[i].err

-----------------------------------------------------------------------------
(* Properties of the outgoing requests *)

(* C15: every OutgoingRequest built from an OutgoingVerificationRequest
   has request_id equal to the txn_id of the wrapped ToDeviceRequest or
   RoomMessageRequest, the wrapped request keeps that txn_id inside the
   OutgoingRequests value, and request_id() returns that id for the
   request and for every clone of it. *)
C15_RequestIdIsTxnId ==
    \A i \in 1..Len(outgoing) :
        LET e == outgoing[i] IN
        /\ e.via = "OutgoingRequest::from" =>
              /\ request_id(e.value) = e.source.inner.txn_id
              /\ request(e.value).inner.txn_id = e.source.inner.txn_id
              /\ request(e.value).variant \in {"ToDeviceRequest", "RoomMessage"}
        /\ e.via = "clone" =>
              /\ request_id(e.value) = request_id(e.source)
              /\ request_id(e.value) = request(e.value).inner.txn_id
              /\ request(e.value) = request(e.source)

(* An in-room request with txn_id 2 was converted, and the clone of the
   result answers 2 as well. *)
C15_Witness ==
    /\ Len(outgoing) = 2
    /\ outgoing[1].via = "OutgoingRequest::from"
    /\ outgoing[1].source.variant = "InRoom" /\ outgoing[1].source.inner.txn_id = 2
    /\ outgoing[2].via = "clone" /\ outgoing[2].source = outgoing[1].value
    /\ request_id(outgoing[2].value) = 2

(* C16: the requests that threads build at the same time, each drawing its
   id with Uuid::new_v4 in ToDeviceRequest::new or in the conversion of a
   SignatureUploadRequest, have pairwise distinct ids in every
   interleaving. *)
C16_DistinctRequestIds ==
    \A i, j \in 1..Len(outgoing) :
        i # j => request_id(outgoing[i].value) # request_id(outgoing[j].value)

(* Two threads, one in each constructor, both drew before either handed
   its request on, and the one that drew first handed on last. *)
C16_Witness ==
    /\ Len(outgoing) = 2 /\ Len(threads) = 2
    /\ outgoing[1].via # outgoing[2].via
    /\ outgoing[1].thread = 2 /\ outgoing[2].thread = 1
    /\ rng[1] = threads[1].uuid /\ rng[2] = threads[2].uuid
    /\ request_id(outgoing[2].value) = rng[1]

(* The variant each kind of request converts into. *)
VariantOf(via, source) ==
    CASE via = "KeysUploadRequest" -> "KeysUpload"
      [] via = "KeysQueryRequest" -> "KeysQuery"
      [] via = "ToDeviceRequest" -> "ToDeviceRequest"
      [] via = "SignatureUploadRequest" -> "SignatureUpload"
      [] via = "RoomMessageRequest" -> "RoomMessage"
      [] via = "OutgoingVerificationRequest" ->
            IF source.variant = "ToDevice" THEN "ToDeviceRequest" ELSE "RoomMessage"

Kinds ==
    {"KeysUploadRequest", "KeysQueryRequest", "ToDeviceRequest",
     "SignatureUploadRequest", "RoomMessageRequest"}

(* C17: converting a request of each of the five kinds, also by way of
   OutgoingVerificationRequest, into OutgoingRequests yields the variant of
   the same kind carrying the unchanged payload, and to_device() returns
   that payload exactly when the variant is ToDeviceRequest and none for
   the four other variants. *)
C17_VariantPreserved ==
    \A i \in 1..Len(outgoing) :
        LET e == outgoing[i]
            payload == IF e.via \in Kinds THEN e.source ELSE e.source.inner
        IN e.via \in Kinds \cup {"OutgoingVerificationRequest"} =>
              /\ e.value.variant = VariantOf(e.via, e.source)
              /\ e.value.inner = payload
              /\ e.value.variant = "ToDeviceRequest" => to_device(e.value) = <<payload>>
              /\ e.value.variant # "ToDeviceRequest" => to_device(e.value) = << >>

(* An in-room verification request became a RoomMessage, for which
   to_device() is none, and a to-device request became a ToDeviceRequest,
   for which it is the request. *)
C17_Witness ==
    /\ Len(outgoing) = 2
    /\ outgoing[1].via = "OutgoingVerificationRequest"
    /\ outgoing[1].source.variant = "InRoom"
    /\ outgoing[1].value.variant = "RoomMessage"
    /\ to_device(outgoing[1].value) = << >>
    /\ outgoing[2].via = "ToDeviceRequest"
    /\ to_device(outgoing[2].value) = <<outgoing[2].source>>

-----------------------------------------------------------------------------
(* Order of the checks of decrypt_key_export *)

(* The steps of an import in the order claimed, and the error of each
   check among them. *)
CheckOrder ==
    <<"markers", "base64", "read", "version", "pbkdf2", "hmac", "aes", "utf8", "json">>
ErrorOfCheck ==
    [c \in {"markers", "base64", "read", "version", "hmac", "utf8", "json"} |->
        CASE c = "markers" -> "InvalidHeaders"
          [] c = "base64" -> "Decode"
          [] c = "read" -> "Io"
          [] c = "version" -> "UnsupportedVersion"
          [] c = "hmac" -> "InvalidMac"
          [] c = "utf8" -> "InvalidUtf8"
          [] c = "json" -> "Json"]

(* The text in hand, trimmed, lacks the BEGIN marker at its start or the
   END marker at its end. *)
MarkersMissing ==
    LET x == carrier.text
        first == CHOOSE i \in 1..(Len(x) + 1) :
                    /\ \A j \in 1..(i - 1) : x[j] \in {" ", "\t", "\n", "\r"}
                    /\ i <= Len(x) => x[i] \notin {" ", "\t", "\n", "\r"}
        last == CHOOSE i \in 0..Len(x) :
                    /\ \A j \in (i + 1)..Len(x) : x[j] \in {" ", "\t", "\n", "\r"}
                    /\ i >= 1 => x[i] \notin {" ", "\t", "\n", "\r"}
    IN \/ first > Len(x)
       \/ x[first] # "-----BEGIN MEGOLM SESSION DATA-----"
       \/ x[last] # "-----END MEGOLM SESSION DATA-----"

(* C18: decrypt_key_export applies its checks in the order marker lines,
   base64 decoding, header and MAC-offset reads, version, MAC, UTF-8, JSON;
   the first check that fails alone determines the error; InvalidHeaders is
   returned exactly when the trimmed text does not start with the BEGIN
   marker or does not end with the END marker, and then nothing else was
   done. *)
C18_CheckOrder ==
    dec.called = "decrypt_key_export" =>
        /\ Len(dec.steps) <= Len(CheckOrder)
        /\ dec.steps = SubSeq(CheckOrder, 1, Len(dec.steps))
        /\ dec.res = "Err" =>
              /\ dec.steps[Len(dec.steps)] \in DOMAIN ErrorOfCheck
              /\ dec.err = ErrorOfCheck[dec.steps[Len(dec.steps)]]
        /\ dec.res = "Ok" => dec.steps = CheckOrder
        /\ (dec.res = "Err" /\ dec.err = "InvalidHeaders") <=> MarkersMissing
        /\ MarkersMissing => dec.steps = <<"markers">>

(* An export whose version byte was changed in transit, so that its MAC no
   longer matches either, was refused for its version, before any key was
   derived. *)
C18_Witness ==
    /\ dec.called = "decrypt_key_export"
    /\ enc.kind = "export" /\ carrier.edits = {"version"}
    /\ dec.passphrase = enc.passphrase
    /\ dec.res = "Err" /\ dec.err = "UnsupportedVersion"
    /\ dec.steps = <<"markers", "base64", "read", "version">>

=============================================================================
